---- MODULE Spec2Model ----
(***************************************************************************)
(* A model of langCoder/VAE_lang_gru.py: the VAE module (Encoder, Decoder, *)
(* forward, reparameterize, elbo, compute_KLD_loss) and its two drivers,   *)
(* train and get_messages.                                                 *)
(*                                                                         *)
(* Tensors are modelled row by row (one row per batch element).  Hidden    *)
(* states are symbolic terms over the learned layers, which are treated as *)
(* uninterpreted functions: <<"encoder_gru", input, hidden>> is the row    *)
(* the encoder cell returns for that input and hidden row.  Probabilities, *)
(* logits and losses are fixed-point numbers, Scale standing for 1.0.      *)
(***************************************************************************)
EXTENDS Integers, Sequences, FiniteSets, TLC

\* ---------------------------------------------------------------- bounds
WordLength == 2
DictionarySize == 2
InputSize == 1
MaxBatch == 2
MaxBatches == 2
MaxEpochs == 2
MaxRng == 2
NumWeights == 3

\* ------------------------------------------------- fixed-point arithmetic
Scale == 100 * 100
Temperature == Scale
Tol == Scale \div 100

Mul(a, b) == (a * b) \div Scale

Abs(a) == IF a < 0 THEN -a ELSE a

RECURSIVE SumSeq(_)
SumSeq(s) == IF Len(s) = 0 THEN 0 ELSE Head(s) + SumSeq(Tail(s))

RECURSIVE MaxSeq(_)
MaxSeq(s) ==
    IF Len(s) = 1 THEN s[1]
    ELSE LET m == MaxSeq(Tail(s)) IN IF s[1] >= m THEN s[1] ELSE m

\* e^(y/Scale) * Scale for y >= 0, by the Taylor series.
RECURSIVE ExpSeries(_, _, _, _)
ExpSeries(y, n, term, acc) ==
    IF n > 14 \/ term = 0 THEN acc
    ELSE LET t == (term * y) \div (n * Scale)
         IN ExpSeries(y, n + 1, t, acc + t)

Exp(x) ==
    IF x >= 0 THEN ExpSeries(x, 1, Scale, Scale)
    ELSE (Scale * Scale) \div ExpSeries(-x, 1, Scale, Scale)

\* ln(x/Scale) * Scale for x > 0, by ln x = 2 atanh((x-1)/(x+1)).
RECURSIVE LnSeries(_, _, _, _)
LnSeries(zsq, k, pow, acc) ==
    IF k > 40 \/ pow = 0 THEN acc
    ELSE LET p == IF pow >= 0 THEN Mul(pow, zsq) ELSE -Mul(-pow, zsq)
         IN LnSeries(zsq, k + 2, p,
                     acc + (IF p >= 0 THEN p \div k ELSE -((-p) \div k)))

Ln(x) ==
    LET d == x - Scale
        z == IF d >= 0 THEN (d * Scale) \div (x + Scale)
             ELSE -(((-d) * Scale) \div (x + Scale))
    IN 2 * LnSeries(Mul(z, z), 3, z, z)

\* ------------------------------------------------ torch library functions
\* torch.logsumexp along the last axis (max-shifted, as torch computes it).
LogSumExp(v) ==
    LET m == MaxSeq(v)
    IN m + Ln(SumSeq([i \in 1..Len(v) |-> Exp(v[i] - m)]))

\* torch.softmax(v, dim=-1)
Softmax(v) ==
    LET m == MaxSeq(v)
        e == [i \in 1..Len(v) |-> Exp(v[i] - m)]
        tot == SumSeq(e)
    IN [i \in 1..Len(v) |-> (e[i] * Scale) \div tot]

\* torch.distributions.(OneHot)Categorical(logits=v): the distribution keeps
\* the normalised logits v - logsumexp(v); its probs are their softmax.
CategoricalLogits(v) ==
    LET lse == LogSumExp(v) IN [i \in 1..Len(v) |-> v[i] - lse]

CategoricalProbs(v) == Softmax(v)

\* torch.distributions.kl_divergence of two categoricals given by logits:
\* sum_i p.probs[i] * (p.logits[i] - q.logits[i]).
KLCategorical(pv, qv) ==
    LET pl == CategoricalLogits(pv)
        ql == CategoricalLogits(qv)
        pp == CategoricalProbs(pv)
        d(i) == pl[i] - ql[i]
    IN SumSeq([i \in 1..Len(pv) |->
                 IF d(i) >= 0 THEN Mul(pp[i], d(i)) ELSE -Mul(pp[i], -d(i))])

\* torch.argmax(v, dim=-1): the 0-based index of the first maximal entry.
ArgMax(v) ==
    LET m == MaxSeq(v)
    IN (CHOOSE i \in 1..Len(v) :
            v[i] = m /\ \A j \in 1..(i - 1) : v[j] < m) - 1


\* ------------------------------------------------------- tensor helpers
Rows(t) == 1..Len(t)

\* torch.stack(list).permute(1, 0, 2) and torch.stack(list).t(): a list over
\* steps of per-row values becomes, per row, the sequence over steps.
StackPermute(list, batch_size) ==
    [b \in 1..batch_size |-> [s \in 1..Len(list) |-> list[s][b]]]

\* z.contiguous().view(-1, z.shape[-1]): all token vectors, row-major.
ViewFlat(z) ==
    LET w == Len(z[1])
    IN [i \in 1..(Len(z) * w) |-> z[((i - 1) \div w) + 1][((i - 1) % w) + 1]]

\* flat.view(batch_size, word_length, -1)
ViewBatch(flat, batch_size, word_length) ==
    [b \in 1..batch_size |->
        [n \in 1..word_length |-> flat[(b - 1) * word_length + n]]]

\* ------------------------------------ collaborators from base_model
\* gumbel_softmax(logits, temperature), g being the Gumbel noise it draws.
gumbel_softmax(logits, temperature, g) ==
    Softmax([i \in 1..Len(logits) |->
                ((logits[i] + g[i]) * Scale) \div temperature])

\* straight_through_discretize(distribution): forward values only.
straight_through_discretize(dist) ==
    LET idx == ArgMax(dist)
    IN [one_hot |-> [i \in 1..Len(dist) |-> IF i = idx + 1 THEN Scale ELSE 0],
        index   |-> idx]

\* ------------------------------------------------ the learned layers
Zeros == <<"zeros">>
encoder_gru(inp, h) == <<"encoder_gru", inp, h>>
token_to_hidden(v) == <<"token_to_hidden", v>>
decoder_gru(inp, h) == <<"decoder_gru", inp, h>>
output_mean(h) == <<"output_mean", h>>
output_logvar(h) == <<"output_logvar", h>>

\* -------------------------------------------- the hidden_to_token layer
\* The weights are fixed between optimizer steps, so hidden_to_token is a
\* fixed function of the hidden row.  The model runs under NumWeights such
\* functions: weights 0 maps every row to equal logits, weights w > 0 puts
\* one raised logit at a position that depends on the whole hidden row.
Weights == 0..(NumWeights - 1)

RECURSIVE Depth(_)
Depth(h) == IF h[1] = "encoder_gru" THEN 1 + Depth(h[3]) ELSE 0

RECURSIVE Leaf(_)
Leaf(h) == IF h[1] = "encoder_gru" THEN Leaf(h[3]) ELSE h

LastSymbol(h) ==
    IF h[1] = "encoder_gru" /\ h[2][1] = "token_to_hidden"
    THEN ArgMax(h[2][2]) ELSE 0

hidden_to_token(w, h) ==
    LET k == (w + Depth(h) + LastSymbol(h) + (SumSeq(Leaf(h)[2]) \div Scale))
             % DictionarySize
    IN [i \in 1..DictionarySize |-> IF w > 0 /\ i = k + 1 THEN Scale ELSE 0]

\* --------------------------------------------------------- VAE.Encoder
NoFrame == [active |-> FALSE]

\* Lines 47-51: the locals before the loop.
EncoderInit(x, sampling) ==
    [active |-> TRUE, done |-> FALSE, x |-> x, sampling |-> sampling,
     batch_size |-> Len(x), hx |-> x,
     gru_input |-> [b \in Rows(x) |-> Zeros],
     num |-> 0, logits |-> <<>>, one_hot_tokens |-> <<>>, messages |-> <<>>,
     sampler |-> <<>>]

\* Lines 56-59: which relaxed distribution the step uses.
RelaxedSample(sampling, tr, pre_logits, g) ==
    IF sampling /\ tr
    THEN [b \in Rows(pre_logits) |->
             gumbel_softmax(pre_logits[b], Temperature, g[b])]
    ELSE [b \in Rows(pre_logits) |-> Softmax(pre_logits[b])]

\* EncoderBody with the relaxed sample, not the discretised one, appended to
\* one_hot_tokens.
EncoderBody_SoftToken(f, tr, w, g) ==
    LET hx == [b \in Rows(f.hx) |-> encoder_gru(f.gru_input[b], f.hx[b])]
        pre_logits == [b \in Rows(hx) |-> hidden_to_token(w, hx[b])]
        z_sampled_soft == RelaxedSample(f.sampling, tr, pre_logits, g)
        st == [b \in Rows(hx) |-> straight_through_discretize(z_sampled_soft[b])]
        z_sampled_onehot == [b \in Rows(hx) |-> st[b].one_hot]
        word == [b \in Rows(hx) |-> st[b].index]
    IN [f EXCEPT !.hx = hx,
                 !.logits = Append(@, z_sampled_soft),
                 !.one_hot_tokens = Append(@, z_sampled_soft),
                 !.messages = Append(@, word),
                 !.gru_input = [b \in Rows(hx) |-> token_to_hidden(z_sampled_onehot[b])],
                 !.sampler = Append(@, IF f.sampling /\ tr THEN "gumbel_softmax"
                                                         ELSE "softmax"),
                 !.num = @ + 1]

\* EncoderBody with the relaxed sample fed back as the next recurrent input.
EncoderBody_SoftFeedback(f, tr, w, g) ==
    LET hx == [b \in Rows(f.hx) |-> encoder_gru(f.gru_input[b], f.hx[b])]
        pre_logits == [b \in Rows(hx) |-> hidden_to_token(w, hx[b])]
        z_sampled_soft == RelaxedSample(f.sampling, tr, pre_logits, g)
        st == [b \in Rows(hx) |-> straight_through_discretize(z_sampled_soft[b])]
        z_sampled_onehot == [b \in Rows(hx) |-> st[b].one_hot]
        word == [b \in Rows(hx) |-> st[b].index]
    IN [f EXCEPT !.hx = hx,
                 !.logits = Append(@, z_sampled_soft),
                 !.one_hot_tokens = Append(@, z_sampled_onehot),
                 !.messages = Append(@, word),
                 !.gru_input = [b \in Rows(hx) |-> token_to_hidden(z_sampled_soft[b])],
                 !.sampler = Append(@, IF f.sampling /\ tr THEN "gumbel_softmax"
                                                         ELSE "softmax"),
                 !.num = @ + 1]

\* Lines 53-65: one pass of the loop body under weights w, g being the
\* noise of the step.
EncoderBody(f, tr, w, g) ==
    LET hx == [b \in Rows(f.hx) |-> encoder_gru(f.gru_input[b], f.hx[b])]
        pre_logits == [b \in Rows(hx) |-> hidden_to_token(w, hx[b])]
        z_sampled_soft == RelaxedSample(f.sampling, tr, pre_logits, g)
        st == [b \in Rows(hx) |-> straight_through_discretize(z_sampled_soft[b])]
        z_sampled_onehot == [b \in Rows(hx) |-> st[b].one_hot]
        word == [b \in Rows(hx) |-> st[b].index]
    IN [f EXCEPT !.hx = hx,
                 !.logits = Append(@, z_sampled_soft),
                 !.one_hot_tokens = Append(@, z_sampled_onehot),
                 !.messages = Append(@, word),
                 !.gru_input = [b \in Rows(hx) |-> token_to_hidden(z_sampled_onehot[b])],
                 !.sampler = Append(@, IF f.sampling /\ tr THEN "gumbel_softmax"
                                                         ELSE "softmax"),
                 !.num = @ + 1]

\* Lines 67-70: the three returned tensors.
EncoderReturnValue(f) ==
    [one_hot_tokens |-> StackPermute(f.one_hot_tokens, f.batch_size),
     logits         |-> StackPermute(f.logits, f.batch_size),
     messages       |-> StackPermute(f.messages, f.batch_size)]

\* ---------------------------------------------------- VAE.reparameterize
\* reparameterize that adds the noise in either mode.
reparameterize_AlwaysNoise(tr, mu, logvar, r) ==
    LET std == [b \in Rows(logvar) |-> <<"exp_", <<"mul", logvar[b], <<"0.5">>>>>>]
        eps == [b \in Rows(std) |-> <<"normal_", r, b>>]
    IN [out |-> [b \in Rows(mu) |-> <<"add_", <<"mul", eps[b], std[b]>>, mu[b]>>],
        rng |-> r + 1]

\* Lines 91-97.  r counts the draws taken from the random generator so far.
reparameterize(tr, mu, logvar, r) ==
    IF tr
    THEN LET std == [b \in Rows(logvar) |-> <<"exp_", <<"mul", logvar[b], <<"0.5">>>>>>]
             eps == [b \in Rows(std) |-> <<"normal_", r, b>>]
         IN [out |-> [b \in Rows(mu) |-> <<"add_", <<"mul", eps[b], std[b]>>, mu[b]>>],
             rng |-> r + 1]
    ELSE [out |-> mu, rng |-> r]

\* --------------------------------------------------------- VAE.Decoder
\* Lines 73-75.
DecoderInit(z) ==
    LET batch_size == Len(z)
        flat == ViewFlat(z)
        emb  == [i \in 1..Len(flat) |-> token_to_hidden(flat[i])]
    IN [active |-> TRUE, done |-> FALSE, z |-> z, batch_size |-> batch_size,
        z_embeddings |-> ViewBatch(emb, batch_size, WordLength),
        hx |-> [b \in 1..batch_size |-> Zeros], n |-> 0]

\* DecoderBody that feeds the first token's embedding at every step.
DecoderBody_FirstToken(f) ==
    LET inputs == [b \in 1..f.batch_size |-> f.z_embeddings[b][1]]
    IN [f EXCEPT !.hx = [b \in 1..f.batch_size |-> decoder_gru(inputs[b], f.hx[b])],
                 !.n = @ + 1]

\* Lines 78-79: one pass of the loop body.
DecoderBody(f) ==
    LET inputs == [b \in 1..f.batch_size |-> f.z_embeddings[b][f.n + 1]]
    IN [f EXCEPT !.hx = [b \in 1..f.batch_size |-> decoder_gru(inputs[b], f.hx[b])],
                 !.n = @ + 1]

\* Lines 81-84: the heads, the reparameterize call and the returned triple.
DecoderReturnValue(f, tr, r) ==
    LET mean   == [b \in 1..f.batch_size |-> output_mean(f.hx[b])]
        logvar == [b \in 1..f.batch_size |-> output_logvar(f.hx[b])]
        rep    == reparameterize(tr, mean, logvar, r)
    IN [output |-> rep.out, output_mean |-> mean, output_logvar |-> logvar,
        call |-> [training |-> tr, mu |-> mean, logvar |-> logvar,
                  rng_before |-> r, rng_after |-> rep.rng, out |-> rep.out,
                  direct |-> FALSE]]

\* ------------------------------------------------------------ the loss
\* Lines 105-110, on numeric rows.
compute_recontruct_loss(inputs, recon, loss) ==
    LET sq(a, b) == Mul(Abs(a - b), Abs(a - b))
        bce(x, y) == (IF x > 0 THEN x ELSE 0)
                     - (IF x >= 0 THEN Mul(x, y) ELSE -Mul(-x, y))
                     + Ln(Scale + Exp(-Abs(x)))
        el(x, y) == IF loss = "mse" THEN sq(x, y) ELSE bce(x, y)
        row(b) == SumSeq([i \in 1..Len(inputs[b]) |-> el(recon[b][i], inputs[b][i])])
    IN SumSeq([b \in 1..Len(inputs) |-> row(b)]) \div Len(inputs)

\* compute_KLD_loss without the prior: the negative entropy alone.
compute_KLD_loss_NoPrior(logits) ==
    LET kl == [b \in 1..Len(logits) |->
                 [s \in 1..Len(logits[b]) |->
                     LET pl == CategoricalLogits(logits[b][s])
                         pp == CategoricalProbs(logits[b][s])
                     IN SumSeq([i \in 1..Len(pl) |-> -Mul(pp[i], -pl[i])])]]
    IN SumSeq([b \in 1..Len(kl) |-> SumSeq(kl[b])])

\* Lines 112-118.
compute_KLD_loss(logits) ==
    LET p == [i \in 1..DictionarySize |-> Ln(Scale \div DictionarySize)]
        prior == <<[s \in 1..WordLength |-> p]>>
        prior_batch == [b \in 1..Len(logits) |-> prior[1]]
        kl == [b \in 1..Len(logits) |->
                 [s \in 1..Len(logits[b]) |->
                     KLCategorical(logits[b][s], prior_batch[b][s])]]
    IN SumSeq([b \in 1..Len(kl) |-> SumSeq(kl[b])])

MulSigned(a, b) == IF b >= 0 THEN Mul(a, b) ELSE -Mul(a, -b)

\* elbo that adds the KL term unweighted.
elbo_UnweightedKL(inputs, recon, logits, beta) ==
    LET recon_loss == compute_recontruct_loss(inputs, recon, "mse")
        kld_loss == compute_KLD_loss(logits)
    IN [loss |-> recon_loss + kld_loss,
        recon_loss |-> recon_loss, kld_loss |-> kld_loss]

\* Lines 99-103.
elbo(inputs, recon, logits, beta) ==
    LET recon_loss == compute_recontruct_loss(inputs, recon, "mse")
        kld_loss == compute_KLD_loss(logits)
    IN [loss |-> recon_loss + MulSigned(beta, kld_loss),
        recon_loss |-> recon_loss, kld_loss |-> kld_loss]


\* ------------------------------------------------------- bounded inputs
BatchSizes == 1..MaxBatch

\* Batches of input vectors, as a dataloader yields them.
DataBatches(B) ==
    { [b \in 1..B |-> [i \in 1..InputSize |-> IF (b + r) % 2 = 0 THEN Scale ELSE 0]]
      : r \in 0..1 }

AsRows(data) == [b \in 1..Len(data) |-> <<"input", data[b]>>]

\* The Gumbel noise of one step: none, or a large value at one position of
\* every row.
NoiseBatches(B) ==
    { [b \in 1..B |-> [i \in 1..DictionarySize |->
          IF r > 0 /\ i = ((b + r) % DictionarySize) + 1 THEN 2 * Scale ELSE 0]]
      : r \in 0..1 }

NoNoise(B) == [b \in 1..B |-> [i \in 1..DictionarySize |-> 0]]

\* Probability vectors: the uniform one, the one-hot ones, and those with
\* one half on each of two neighbouring symbols.
UniformVec == [i \in 1..DictionarySize |-> Scale \div DictionarySize]
OneHotVec(k) == [i \in 1..DictionarySize |-> IF i = k THEN Scale ELSE 0]
HalfVec(k) ==
    [i \in 1..DictionarySize |->
        IF i = k \/ i = (k % DictionarySize) + 1 THEN Scale \div 2 ELSE 0]

ProbVecAt(j) ==
    LET m == j % (2 * DictionarySize + 1)
    IN IF m = 0 THEN UniformVec
       ELSE IF m <= DictionarySize THEN OneHotVec(m)
       ELSE HalfVec(m - DictionarySize)

\* Relaxed-distribution tensors of shape (B, WordLength, DictionarySize):
\* the same vector everywhere, or vectors varying with row and step.
DistTensors(B) ==
    { [b \in 1..B |-> [s \in 1..WordLength |-> ProbVecAt(j + v * (b * WordLength + s))]]
      : j \in 0..(2 * DictionarySize), v \in 0..1 }

OneHotTensors(B) ==
    { [b \in 1..B |-> [s \in 1..WordLength |->
          OneHotVec(((j + v * (b * WordLength + s)) % DictionarySize) + 1)]]
      : j \in 0..(DictionarySize - 1), v \in 0..1 }

Betas == {0, Scale \div 2, Scale, 2 * Scale}

\* Mean and log-variance tensors (of one row) handed to reparameterize
\* directly.
ParamTensors == { << <<"input", [i \in 1..InputSize |-> v]>> >> : v \in {0, Scale} }

\* Dataloaders: n batches of size b over a dataset of D examples; a loader
\* that drops an incomplete last batch yields no batch from one example.
Dataloaders ==
    { [n |-> n, b |-> b, D |-> n * b] : n \in 1..MaxBatches, b \in BatchSizes }
    \cup { [n |-> 0, b |-> 1, D |-> d] : d \in 0..1 }


\* ---------------------------------------------------------------- state
VARIABLES
    training,   \* nn.Module.training of the model
    weights,    \* the current parameters (which hidden_to_token function)
    rng,        \* draws taken from torch's generator since the current
                \* forward pass or series of direct calls began
    top,        \* the running or most recent top-level call
    pc,         \* where that call stands; "idle" once it has returned
    drv,        \* the locals of train or get_messages
    enc,        \* the locals of Encoder
    encRet,     \* what Encoder returned
    dec,        \* the locals of Decoder
    decRet,     \* what Decoder returned
    fwd,        \* what forward returned, a tuple
    rep,        \* the latest reparameterize call
    repPrev,    \* the evaluation-mode direct reparameterize call before it
    lossRec,    \* the latest elbo / compute_KLD_loss / reconstruction call
    raised      \* the exception that ended the latest top-level call

vars == <<training, weights, rng, top, pc, drv, enc, encRet, dec, decRet, fwd,
          rep, repPrev, lossRec, raised>>

NoDrv == [fn |-> "none"]
NoRet == [valid |-> FALSE]
NoCall == [valid |-> FALSE]

Init ==
    /\ training = TRUE
    /\ weights \in Weights
    /\ rng = 0
    /\ top = "none"
    /\ pc = "idle"
    /\ drv = NoDrv
    /\ enc = NoFrame
    /\ encRet = NoRet
    /\ dec = NoFrame
    /\ decRet = NoRet
    /\ fwd = <<>>
    /\ rep = NoCall
    /\ repPrev = NoCall
    /\ lossRec = NoCall
    /\ raised = "none"

\* A new top-level call starts from fresh locals.
ClearLocals ==
    /\ enc' = NoFrame /\ encRet' = NoRet
    /\ dec' = NoFrame /\ decRet' = NoRet
    /\ fwd' = <<>>
    /\ lossRec' = NoCall
    /\ raised' = "none"

\* A forward pass starts a new window of observed random draws.
ClearDraws == rng' = 0 /\ rep' = NoCall /\ repPrev' = NoCall

\* So does a driver that is handed a dataloader with batches.
DriverDraws(dl) ==
    IF dl.n > 0 THEN ClearDraws ELSE UNCHANGED <<rng, rep, repPrev>>

\* Sequence unpacking, `a, b, c = value`.
UnpackOk(targets, value) == Len(targets) = Len(value)
Bound(targets, value, name) == value[CHOOSE i \in 1..Len(targets) : targets[i] = name]

\* ------------------------------------------------------------ Encoder
\* Encoder is entered (lines 46-51) by forward or by a direct call.
EnterEncoder(x, sampling) ==
    /\ enc' = EncoderInit(x, sampling)
    /\ encRet' = NoRet /\ dec' = NoFrame /\ decRet' = NoRet /\ fwd' = <<>>
    /\ pc' = "Encoder"

\* Lines 52-65: one iteration of the loop.
EncoderStep ==
    /\ pc = "Encoder"
    /\ enc.num < WordLength
    /\ \E g \in (IF enc.sampling /\ training THEN NoiseBatches(enc.batch_size)
                                         ELSE {NoNoise(enc.batch_size)}) :
          enc' = EncoderBody(enc, training, weights, g)
    /\ rng' = IF enc.sampling /\ training THEN rng + 1 ELSE rng
    /\ UNCHANGED <<training, weights, top, pc, drv, encRet, dec, decRet, fwd,
                   rep, repPrev, lossRec, raised>>

\* Lines 67-70, and for forward line 88 up to the entry of Decoder.
EncoderReturn ==
    /\ pc = "Encoder"
    /\ enc.num = WordLength
    /\ enc' = [enc EXCEPT !.done = TRUE]
    /\ encRet' = [valid |-> TRUE] @@ EncoderReturnValue(enc)
    /\ IF top = "Encoder"
       THEN pc' = "idle" /\ dec' = dec
       ELSE pc' = "Decoder" /\ dec' = DecoderInit(EncoderReturnValue(enc).one_hot_tokens)
    /\ UNCHANGED <<training, weights, rng, top, drv, decRet, fwd, rep, repPrev,
                   lossRec, raised>>

\* ------------------------------------------------------------ Decoder
\* Lines 77-79: one iteration of the loop.
DecoderStep ==
    /\ pc = "Decoder"
    /\ dec.n < WordLength
    /\ dec' = DecoderBody(dec)
    /\ UNCHANGED <<training, weights, rng, top, pc, drv, enc, encRet, decRet,
                   fwd, rep, repPrev, lossRec, raised>>

\* Line 89: what forward returns from the two results.
ForwardReturnValue(e, d) == <<d.output, e.one_hot_tokens, e.logits, e.messages>>

\* Lines 81-84, and for forward lines 88-89: back to forward's caller.
DecoderReturn ==
    /\ pc = "Decoder"
    /\ dec.n = WordLength
    /\ LET r == DecoderReturnValue(dec, training, rng)
       IN /\ dec' = [dec EXCEPT !.done = TRUE]
          /\ decRet' = [valid |-> TRUE, output |-> r.output,
                        output_mean |-> r.output_mean,
                        output_logvar |-> r.output_logvar]
          /\ rep' = [valid |-> TRUE] @@ r.call
          /\ rng' = r.call.rng_after
          /\ fwd' = IF top = "Decoder" THEN fwd ELSE ForwardReturnValue(encRet, r)
    /\ pc' = CASE top = "train" -> "train_unpack"
               [] top = "get_messages" -> "gm_unpack"
               [] OTHER -> "idle"
    /\ UNCHANGED <<training, weights, top, drv, enc, encRet, repPrev, lossRec,
                   raised>>


\* -------------------------------------------------------------- train
\* Lines 121-123: train(model, dataloader, learning_rate, device, epochs,
\* saved, beta) up to the epoch loop.
Train ==
    /\ pc = "idle"
    /\ \E dl \in Dataloaders, epochs \in 0..MaxEpochs, beta \in {0, Scale} :
          /\ drv' = [fn |-> "train", dl |-> dl, D |-> dl.D, epochs |-> epochs,
                     epoch |-> 0, beta |-> beta, batch_idx |-> 0, data |-> <<>>,
                     train_loss |-> 0, train_reco |-> 0, train_KLD |-> 0,
                     entered_training |-> training]
          /\ DriverDraws(dl)
    /\ top' = "train"
    /\ pc' = "train_epoch"
    /\ ClearLocals
    /\ UNCHANGED <<training, weights>>

\* TrainEpoch without the call of model.train().
TrainEpoch_NoTrainMode ==
    /\ pc = "train_epoch"
    /\ drv.epoch < drv.epochs
    /\ drv' = [drv EXCEPT !.train_loss = 0, !.train_reco = 0, !.train_KLD = 0,
                          !.batch_idx = 0]
    /\ pc' = "train_batch"
    /\ UNCHANGED <<training, weights, rng, top, enc, encRet, dec, decRet, fwd,
                   rep, repPrev, lossRec, raised>>

\* Lines 124-126: the head of one epoch.
TrainEpoch ==
    /\ pc = "train_epoch"
    /\ drv.epoch < drv.epochs
    /\ training' = TRUE
    /\ drv' = [drv EXCEPT !.train_loss = 0, !.train_reco = 0, !.train_KLD = 0,
                          !.batch_idx = 0]
    /\ pc' = "train_batch"
    /\ UNCHANGED <<weights, rng, top, enc, encRet, dec, decRet, fwd, rep,
                   repPrev, lossRec, raised>>

\* Lines 128-131: the next batch, up to the entry of model(data).
TrainBatch ==
    /\ pc = "train_batch"
    /\ drv.batch_idx < drv.dl.n
    /\ \E data \in DataBatches(drv.dl.b) :
          /\ drv' = [drv EXCEPT !.data = data]
          /\ EnterEncoder(AsRows(data), TRUE)
    /\ ClearDraws
    /\ UNCHANGED <<training, weights, top, lossRec, raised>>

\* Lines 131-137: the forward result is unpacked, the loss is computed from
\* the bound names, the optimizer steps and the sums grow.  Unpacking a
\* tuple into a different number of targets raises ValueError and ends
\* train.  In the other branch recon stands for the numeric value of the
\* reconstruction and w for the parameters the optimizer step leaves.
TrainTargets == <<"recon", "one_hot_token", "logits", "message", "_">>

TrainUnpack ==
    /\ pc = "train_unpack"
    /\ IF UnpackOk(TrainTargets, fwd)
       THEN LET one_hot_token == Bound(TrainTargets, fwd, "one_hot_token")
            IN \E recon \in DataBatches(Len(drv.data)), w \in Weights :
                  LET l == elbo(drv.data, recon, one_hot_token, drv.beta)
                  IN /\ lossRec' = [valid |-> TRUE, fn |-> "elbo", caller |-> "train",
                                    inputs |-> drv.data, recon |-> recon,
                                    logits |-> one_hot_token, beta |-> drv.beta,
                                    loss |-> l.loss, recon_loss |-> l.recon_loss,
                                    kld_loss |-> l.kld_loss]
                     /\ weights' = w
                     /\ drv' = [drv EXCEPT !.train_loss = @ + l.loss,
                                           !.train_reco = @ + l.recon_loss,
                                           !.train_KLD = @ + l.kld_loss,
                                           !.batch_idx = @ + 1]
                     /\ pc' = "train_batch"
                     /\ raised' = raised
       ELSE /\ raised' = "ValueError: not enough values to unpack"
            /\ pc' = "idle"
            /\ UNCHANGED <<weights, drv, lossRec>>
    /\ UNCHANGED <<training, rng, top, enc, encRet, dec, decRet, fwd, rep,
                   repPrev>>

\* Line 139: the epoch's report, which divides the sums by len(dataset).
TrainEpochEnd ==
    /\ pc = "train_batch"
    /\ drv.batch_idx = drv.dl.n
    /\ IF drv.D = 0
       THEN raised' = "ZeroDivisionError" /\ pc' = "idle" /\ drv' = drv
       ELSE raised' = raised /\ pc' = "train_epoch"
            /\ drv' = [drv EXCEPT !.epoch = @ + 1]
    /\ UNCHANGED <<training, weights, rng, top, enc, encRet, dec, decRet, fwd,
                   rep, repPrev, lossRec>>

\* Line 141: after the last epoch the parameters are written to a file
\* and train returns.
TrainSave ==
    /\ pc = "train_epoch"
    /\ drv.epoch = drv.epochs
    /\ pc' = "idle"
    /\ UNCHANGED <<training, weights, rng, top, drv, enc, encRet, dec, decRet,
                   fwd, rep, repPrev, lossRec, raised>>

\* ------------------------------------------------------- get_messages
\* Lines 144-148.
GetMessages ==
    /\ pc = "idle"
    /\ training' = FALSE
    /\ \E dl \in Dataloaders :
          /\ drv' = [fn |-> "get_messages", dl |-> dl, batch_idx |-> 0,
                     data |-> <<>>, latent |-> <<>>, message |-> <<>>,
                     entered_training |-> training]
          /\ DriverDraws(dl)
    /\ top' = "get_messages"
    /\ pc' = "gm_batch"
    /\ ClearLocals
    /\ UNCHANGED <<weights>>

\* Lines 149-151: the next batch, up to the entry of model(data).
GetMessagesBatch ==
    /\ pc = "gm_batch"
    /\ drv.batch_idx < drv.dl.n
    /\ \E data \in DataBatches(drv.dl.b) :
          /\ drv' = [drv EXCEPT !.data = data]
          /\ EnterEncoder(AsRows(data), TRUE)
    /\ ClearDraws
    /\ UNCHANGED <<training, weights, top, lossRec, raised>>

\* Lines 151-153: the forward result is unpacked and collected.
GetMessagesTargets == <<"recon", "_", "logits", "mes">>

GetMessagesCollect ==
    /\ pc = "gm_unpack"
    /\ IF UnpackOk(GetMessagesTargets, fwd)
       THEN /\ drv' = [drv EXCEPT
                         !.latent = Append(@, Bound(GetMessagesTargets, fwd, "recon")),
                         !.message = Append(@, Bound(GetMessagesTargets, fwd, "mes")),
                         !.batch_idx = @ + 1]
            /\ pc' = "gm_batch"
            /\ raised' = raised
       ELSE /\ raised' = "ValueError: too many values to unpack"
            /\ pc' = "idle"
            /\ drv' = drv
    /\ UNCHANGED <<training, weights, rng, top, enc, encRet, dec, decRet, fwd,
                   rep, repPrev, lossRec>>

\* np.concatenate(list, axis=0)
RECURSIVE Concatenate(_)
Concatenate(list) ==
    IF Len(list) = 0 THEN <<>> ELSE Head(list) \o Concatenate(Tail(list))

\* Lines 160-162: numpy refuses to concatenate an empty list.
GetMessagesReturn ==
    /\ pc = "gm_batch"
    /\ drv.batch_idx = drv.dl.n
    /\ IF Len(drv.latent) = 0
       THEN raised' = "ValueError: need at least one array to concatenate"
            /\ drv' = drv
       ELSE raised' = raised
            /\ drv' = [drv EXCEPT !.latent = Concatenate(@),
                                  !.message = Concatenate(@)]
    /\ pc' = "idle"
    /\ UNCHANGED <<training, weights, rng, top, enc, encRet, dec, decRet, fwd,
                   rep, repPrev, lossRec>>

\* ------------------------------------- direct calls of the model's methods
\* Lines 86-87: model(input).
CallForward ==
    /\ pc = "idle"
    /\ \E B \in BatchSizes : \E data \in DataBatches(B) :
          EnterEncoder(AsRows(data), TRUE)
    /\ top' = "forward"
    /\ drv' = NoDrv /\ lossRec' = NoCall /\ raised' = "none"
    /\ ClearDraws
    /\ UNCHANGED <<training, weights>>

\* Line 46: model.Encoder(x, sampling).
CallEncoder ==
    /\ pc = "idle"
    /\ \E B \in BatchSizes : \E data \in DataBatches(B), sampling \in BOOLEAN :
          EnterEncoder(AsRows(data), sampling)
    /\ top' = "Encoder"
    /\ drv' = NoDrv /\ lossRec' = NoCall /\ raised' = "none"
    /\ ClearDraws
    /\ UNCHANGED <<training, weights>>

\* Lines 72-75: model.Decoder(z).
CallDecoder ==
    /\ pc = "idle"
    /\ \E B \in BatchSizes : \E z \in OneHotTensors(B) : dec' = DecoderInit(z)
    /\ enc' = NoFrame /\ encRet' = NoRet /\ decRet' = NoRet /\ fwd' = <<>>
    /\ top' = "Decoder"
    /\ pc' = "Decoder"
    /\ drv' = NoDrv /\ lossRec' = NoCall /\ raised' = "none"
    /\ ClearDraws
    /\ UNCHANGED <<training, weights>>

\* Lines 91-97: model.reparameterize(mu, logvar).
CallReparameterize ==
    /\ pc = "idle"
    /\ training => rng < MaxRng
    /\ \E mu \in ParamTensors, logvar \in ParamTensors :
          LET r == reparameterize(training, mu, logvar, rng)
          IN /\ rep' = [valid |-> TRUE, training |-> training, mu |-> mu,
                        logvar |-> logvar, rng_before |-> rng,
                        rng_after |-> r.rng, out |-> r.out, direct |-> TRUE]
             /\ rng' = r.rng
    /\ repPrev' = IF rep.valid /\ rep.direct /\ ~rep.training THEN rep ELSE repPrev
    /\ top' = "reparameterize"
    /\ drv' = NoDrv
    /\ ClearLocals
    /\ UNCHANGED <<training, weights, pc>>

\* The direct calls of the loss functions on the bounded inputs, each with
\* what it returns.
ElboCalls ==
    UNION { { LET l == elbo(inputs, recon, logits, beta)
              IN [valid |-> TRUE, fn |-> "elbo", caller |-> "direct",
                  inputs |-> inputs, recon |-> recon, logits |-> logits,
                  beta |-> beta, loss |-> l.loss,
                  recon_loss |-> l.recon_loss, kld_loss |-> l.kld_loss]
              : inputs \in DataBatches(B), recon \in DataBatches(B),
                logits \in DistTensors(B), beta \in Betas }
            : B \in BatchSizes }

KLDCalls ==
    UNION { { [valid |-> TRUE, fn |-> "compute_KLD_loss", caller |-> "direct",
               logits |-> logits, kld_loss |-> compute_KLD_loss(logits)]
              : logits \in DistTensors(B) }
            : B \in BatchSizes }

ReconLossCalls ==
    UNION { { [valid |-> TRUE, fn |-> "compute_recontruct_loss",
               caller |-> "direct", inputs |-> inputs, recon |-> recon,
               kind |-> loss,
               recon_loss |-> compute_recontruct_loss(inputs, recon, loss)]
              : inputs \in DataBatches(B), recon \in DataBatches(B),
                loss \in {"mse", "bce"} }
            : B \in BatchSizes }

\* A direct call of a loss function leaves the model as it is.
LossCallFrame ==
    /\ drv' = NoDrv
    /\ enc' = NoFrame /\ encRet' = NoRet /\ dec' = NoFrame /\ decRet' = NoRet
    /\ fwd' = <<>> /\ raised' = "none"
    /\ ClearDraws
    /\ UNCHANGED <<training, weights, pc>>

\* Lines 99-103: model.elbo(inputs, recon, logits, beta).
CallElbo ==
    /\ pc = "idle"
    /\ \E c \in ElboCalls : lossRec' = c
    /\ top' = "elbo"
    /\ LossCallFrame

\* Lines 112-118: model.compute_KLD_loss(logits).
CallKLD ==
    /\ pc = "idle"
    /\ \E c \in KLDCalls : lossRec' = c
    /\ top' = "compute_KLD_loss"
    /\ LossCallFrame

\* Lines 105-110: model.compute_recontruct_loss(inputs, recon, loss).
CallReconLoss ==
    /\ pc = "idle"
    /\ \E c \in ReconLossCalls : lossRec' = c
    /\ top' = "compute_recontruct_loss"
    /\ LossCallFrame

Next ==
    \/ Train \/ TrainEpoch \/ TrainBatch \/ TrainUnpack \/ TrainEpochEnd \/ TrainSave
    \/ GetMessages \/ GetMessagesBatch \/ GetMessagesCollect \/ GetMessagesReturn
    \/ EncoderStep \/ EncoderReturn \/ DecoderStep \/ DecoderReturn
    \/ CallForward \/ CallEncoder \/ CallDecoder \/ CallReparameterize

Spec == Init /\ [][Next]_vars

\* The loss functions are pure: they are applied to bounded inputs.
NextLoss == CallElbo \/ CallKLD \/ CallReconLoss

SpecLoss == Init /\ [][NextLoss]_vars


\* ================================================================ claims

\* ---------------------------------------------------------------- C1
OneHotAt(tok, idx) ==
    /\ Len(tok) = DictionarySize
    /\ idx \in 0..(DictionarySize - 1)
    /\ tok[idx + 1] = Scale
    /\ \A j \in 1..DictionarySize : j # idx + 1 => tok[j] = 0

IsArgMaxOf(idx, dist) ==
    \A j \in 1..DictionarySize : dist[j] <= dist[idx + 1]

\* C1: in every Encoder call (any batch, either mode, sampling on or off),
\* at every step and for every batch element, the discrete token is exactly
\* one-hot over DictionarySize positions, and the symbol index of the step
\* is the position of its 1, which is an argmax of the step's relaxed
\* distribution and lies in [0, DictionarySize).  This holds of the lists
\* the loop builds and of the three tensors Encoder returns.
C1_TokensOneHot ==
    /\ enc.active =>
          \A s \in 1..Len(enc.one_hot_tokens) : \A b \in 1..enc.batch_size :
             /\ OneHotAt(enc.one_hot_tokens[s][b], enc.messages[s][b])
             /\ IsArgMaxOf(enc.messages[s][b], enc.logits[s][b])
    /\ encRet.valid =>
          \A b \in 1..Len(encRet.one_hot_tokens) : \A s \in 1..WordLength :
             /\ OneHotAt(encRet.one_hot_tokens[b][s], encRet.messages[b][s])
             /\ IsArgMaxOf(encRet.messages[b][s], encRet.logits[b][s])

\* An Encoder call on several rows has returned, in training mode with
\* sampling on, with a symbol other than 0 and a relaxed distribution that
\* is not itself one-hot.
C1_Witness ==
    /\ encRet.valid /\ enc.sampling /\ training
    /\ enc.batch_size > 1
    /\ \E b \in 1..enc.batch_size : \E s \in 1..WordLength :
          /\ encRet.messages[b][s] > 0
          /\ encRet.logits[b][s] # encRet.one_hot_tokens[b][s]

\* ---------------------------------------------------------------- C2
\* C2: forward returns exactly four values, in the order (reconstruction,
\* discrete tokens, relaxed distributions, symbol indices), and both train
\* and get_messages unpack it without an unpacking error.
C2_ForwardUnpacks ==
    /\ (fwd # <<>> =>
           /\ Len(fwd) = 4
           /\ fwd[1] = decRet.output
           /\ fwd[2] = encRet.one_hot_tokens
           /\ fwd[3] = encRet.logits
           /\ fwd[4] = encRet.messages)
    /\ raised \notin {"ValueError: not enough values to unpack",
                      "ValueError: too many values to unpack"}

\* ---------------------------------------------------------------- C3
\* C3: every batch step of train invokes elbo, and the sequence elbo uses
\* for the KL term is the relaxed-distribution sequence the encoder produced
\* for that batch in the same forward pass.
C3_KLUsesRelaxed ==
    (top = "train" /\ fwd # <<>> /\ pc # "train_unpack") =>
        /\ lossRec.valid
        /\ lossRec.caller = "train"
        /\ lossRec.logits = fwd[3]

\* ---------------------------------------------------------------- C4
\* The KL divergence of the categorical with probabilities p from the
\* uniform categorical: sum_i p[i] * (ln p[i] - ln(1/DictionarySize)).
KLFromUniform(p) ==
    SumSeq([i \in 1..Len(p) |->
              IF p[i] = 0 THEN 0
              ELSE MulSigned(p[i], Ln(p[i]) + Ln(DictionarySize * Scale))])

ClaimedKL(logits) ==
    SumSeq([b \in 1..Len(logits) |->
              SumSeq([s \in 1..Len(logits[b]) |-> KLFromUniform(logits[b][s])])])

\* C4: for a relaxed-distribution sequence whose vectors sum to 1,
\* compute_KLD_loss returns the KL divergence between the categorical whose
\* probabilities are the step's relaxed vector and the uniform categorical,
\* summed over all steps and all batch elements (up to Tol).
C4_KLDOfRelaxed ==
    (lossRec.valid /\ lossRec.fn \in {"elbo", "compute_KLD_loss"}) =>
        Abs(lossRec.kld_loss - ClaimedKL(lossRec.logits)) <= Tol

\* ---------------------------------------------------------------- C5
AllUniform(logits) ==
    \A b \in 1..Len(logits) : \A s \in 1..Len(logits[b]) : logits[b][s] = UniformVec

\* C5: when every step's relaxed distribution of every batch element is the
\* uniform distribution, compute_KLD_loss, and with it the kld_term of
\* elbo, is zero.
C5_UniformKLZero ==
    (lossRec.valid /\ lossRec.fn \in {"elbo", "compute_KLD_loss"}
       /\ AllUniform(lossRec.logits)) => lossRec.kld_loss = 0

\* elbo was called on several rows of uniform distributions.
C5_Witness ==
    /\ lossRec.valid /\ lossRec.fn = "elbo"
    /\ Len(lossRec.logits) > 1
    /\ AllUniform(lossRec.logits)
    /\ lossRec.kld_loss = 0

\* ---------------------------------------------------------------- C6
\* C6: elbo returns (total, recon_term, kld_term) with
\* total = recon_term + beta * kld_term; with beta = 0 the total is the
\* recon_term whatever the distributions, and kld_term is still the KL loss
\* of the logits.
C6_ElboTotal ==
    (lossRec.valid /\ lossRec.fn = "elbo") =>
        /\ lossRec.loss = lossRec.recon_loss + MulSigned(lossRec.beta, lossRec.kld_loss)
        /\ lossRec.beta = 0 => lossRec.loss = lossRec.recon_loss
        /\ lossRec.recon_loss = compute_recontruct_loss(lossRec.inputs, lossRec.recon, "mse")
        /\ lossRec.kld_loss = compute_KLD_loss(lossRec.logits)

\* elbo was called with beta = 0 on skewed distributions and a
\* reconstruction that differs from the input.
C6_Witness ==
    /\ lossRec.valid /\ lossRec.fn = "elbo"
    /\ lossRec.beta = 0
    /\ lossRec.kld_loss > Tol
    /\ lossRec.recon_loss > 0
    /\ lossRec.loss = lossRec.recon_loss

\* ---------------------------------------------------------------- C7
NoisyRow(mu_b, logvar_b, r, b) ==
    <<"add_", <<"mul", <<"normal_", r, b>>, <<"exp_", <<"mul", logvar_b, <<"0.5">>>>>>>>, mu_b>>

\* C7: in evaluation mode reparameterize returns exactly mean, takes no
\* random draw and ignores logvar, so two evaluation-mode calls with the
\* same mean return the same value whatever their logvar and whatever the
\* state of the random source; in training mode the result is
\* mean + exp(0.5 * logvar) * noise, the noise being the next draw.
C7_EvalDeterministic ==
    /\ (rep.valid /\ ~rep.training) =>
          rep.out = rep.mu /\ rep.rng_after = rep.rng_before
    /\ (rep.valid /\ rep.training) =>
          /\ rep.rng_after = rep.rng_before + 1
          /\ \A b \in 1..Len(rep.mu) :
                rep.out[b] = NoisyRow(rep.mu[b], rep.logvar[b], rep.rng_before, b)
    /\ (rep.valid /\ ~rep.training /\ repPrev.valid /\ rep.mu = repPrev.mu) =>
          rep.out = repPrev.out

\* Two evaluation-mode calls with the same mean, different logvar and a
\* different state of the random source.
C7_Witness ==
    /\ rep.valid /\ ~rep.training /\ repPrev.valid
    /\ rep.mu = repPrev.mu
    /\ rep.logvar # repPrev.logvar
    /\ rep.rng_before # repPrev.rng_before
    /\ rep.out = repPrev.out

\* ---------------------------------------------------------------- C8
\* The hidden row after k encoder steps, rebuilt from the input row and the
\* emitted tokens.
RECURSIVE EncChain(_, _, _, _)
EncChain(x_b, toks, b, k) ==
    IF k = 0 THEN x_b
    ELSE <<"encoder_gru",
           IF k = 1 THEN <<"zeros">> ELSE <<"token_to_hidden", toks[k - 1][b]>>,
           EncChain(x_b, toks, b, k - 1)>>

\* C8: Encoder applies the cell word_length times, one after another: step
\* 0 on hidden state x and a zero input, step k > 0 on the hidden state of
\* step k-1 and the token_to_hidden projection of the one-hot token of step
\* k-1; every step emits one relaxed distribution, one token and one index,
\* and the three returned sequences have word_length entries in step order.
C8_EncoderChain ==
    enc.active =>
        /\ enc.num <= WordLength
        /\ Len(enc.logits) = enc.num
        /\ Len(enc.one_hot_tokens) = enc.num
        /\ Len(enc.messages) = enc.num
        /\ \A b \in 1..enc.batch_size :
              /\ enc.hx[b] = EncChain(enc.x[b], enc.one_hot_tokens, b, enc.num)
              /\ enc.gru_input[b] =
                    IF enc.num = 0 THEN <<"zeros">>
                    ELSE <<"token_to_hidden", enc.one_hot_tokens[enc.num][b]>>
        /\ enc.done =>
              /\ enc.num = WordLength
              /\ encRet.valid
              /\ \A b \in 1..enc.batch_size :
                    /\ Len(encRet.logits[b]) = WordLength
                    /\ Len(encRet.one_hot_tokens[b]) = WordLength
                    /\ Len(encRet.messages[b]) = WordLength
                    /\ \A s \in 1..WordLength :
                          /\ encRet.logits[b][s] = enc.logits[s][b]
                          /\ encRet.one_hot_tokens[b][s] = enc.one_hot_tokens[s][b]
                          /\ encRet.messages[b][s] = enc.messages[s][b]

\* An Encoder call on several rows has returned; two rows emitted different
\* tokens, a row's first two tokens differ, and a relaxed distribution
\* differs from its token.
C8_Witness ==
    /\ enc.active /\ enc.done /\ enc.batch_size > 1
    /\ enc.one_hot_tokens[1][1] # enc.one_hot_tokens[1][2]
    /\ \E b \in 1..enc.batch_size :
          /\ enc.one_hot_tokens[1][b] # enc.one_hot_tokens[2][b]
          /\ enc.logits[1][b] # enc.one_hot_tokens[1][b]

\* ---------------------------------------------------------------- C9
RECURSIVE DecChain(_, _, _)
DecChain(z, b, n) ==
    IF n = 0 THEN <<"zeros">>
    ELSE <<"decoder_gru", <<"token_to_hidden", z[b][n]>>, DecChain(z, b, n - 1)>>

\* C9: Decoder starts from a zero hidden state and applies the decoder cell
\* word_length times in sequence order, step n on the embedding of the n-th
\* token and the hidden state of step n-1; mean and logvar come from the
\* hidden state after the last step only, and they are the values passed
\* to reparameterize to obtain the returned reconstruction.
C9_DecoderChain ==
    dec.active =>
        /\ dec.n <= WordLength
        /\ \A b \in 1..dec.batch_size : dec.hx[b] = DecChain(dec.z, b, dec.n)
        /\ dec.done =>
              /\ dec.n = WordLength
              /\ decRet.valid
              /\ \A b \in 1..dec.batch_size :
                    /\ decRet.output_mean[b] =
                          <<"output_mean", DecChain(dec.z, b, WordLength)>>
                    /\ decRet.output_logvar[b] =
                          <<"output_logvar", DecChain(dec.z, b, WordLength)>>
              /\ rep.valid /\ ~rep.direct
              /\ rep.mu = decRet.output_mean
              /\ rep.logvar = decRet.output_logvar
              /\ rep.out = decRet.output

\* A Decoder call on several rows has returned; a row's first two tokens
\* differ and so do the first tokens of two rows.
C9_Witness ==
    /\ dec.active /\ dec.done /\ dec.batch_size > 1
    /\ dec.z[1][1] # dec.z[1][2]
    /\ dec.z[1][1] # dec.z[2][1]
    /\ decRet.valid

\* ---------------------------------------------------------------- C10
\* C10: whatever calls of train and get_messages came before, a forward
\* pass issued by train runs in training mode (the encoder draws a relaxed
\* sample at every step, reparameterize adds noise) and one issued by
\* get_messages runs in evaluation mode (plain softmax, reparameterize
\* returns the mean); get_messages leaves the model in evaluation mode and
\* train is in training mode from the head of each epoch on.
C10_DriverModes ==
    /\ (top = "train" /\ pc \in {"train_batch", "Encoder", "Decoder", "train_unpack"})
          => training
    /\ (top = "train" /\ enc.active) =>
          \A s \in 1..Len(enc.sampler) : enc.sampler[s] = "gumbel_softmax"
    /\ (top = "train" /\ dec.active /\ dec.done) =>
          /\ rep.training
          /\ \A b \in 1..Len(rep.mu) :
                rep.out[b] = NoisyRow(rep.mu[b], rep.logvar[b], rep.rng_before, b)
    /\ top = "get_messages" => ~training
    /\ (top = "get_messages" /\ enc.active) =>
          \A s \in 1..Len(enc.sampler) : enc.sampler[s] = "softmax"
    /\ (top = "get_messages" /\ dec.active /\ dec.done) =>
          ~rep.training /\ rep.out = rep.mu

\* train was called on a model left in evaluation mode and its forward pass
\* has run through the decoder.
C10_Witness ==
    /\ top = "train" /\ ~drv.entered_training
    /\ dec.active /\ dec.done
    /\ Len(enc.sampler) = WordLength
    /\ rep.training


====
